---- MODULE Spec2Model ----
(***************************************************************************)
(* ConsensusCluster (src/algorithms/monti.py): consensus clustering by     *)
(* repeated resampling.  The engine's fields, the locals of a running fit  *)
(* or fit_from_cfg, and the outcome of the last finished call are the      *)
(* state; each loop iteration of fit / fit_from_cfg is one step.           *)
(***************************************************************************)
EXTENDS Integers, Sequences, FiniteSets, TLC

\* ------------------------------------------------------------------ bounds
MaxN == 3          \* data matrices have MaxN - 1 or MaxN rows
MaxL == 2          \* smallest candidate counts L tried: 2..MaxL
MaxK == 5          \* exclusive upper ends K tried: 1..MaxK
MaxH == 2          \* resampling trials per candidate count: 0..MaxH
MaxTrials == 2     \* resampling trials run on one engine, over all its calls
MaxLabel == 1      \* labels a clustering model may return: -1..MaxLabel
MaxAk == 3         \* areas under the CDF range over 1..MaxAk

\* Python's None, and a value that is set
None == [kind |-> "None"]
Value(v) == [kind |-> "value", v |-> v]

\* ------------------------------------------------------------ the program
VARIABLES
    pc,                     \* "new", "rejected", "idle", "fit", "fit_from_cfg"
    L_, K_, H_,             \* self.L_, self.K_, self.H_
    resample_proportion_,   \* self.resample_proportion_, in tenths
    Mk, Ak, deltaK, bestK,  \* self.Mk, self.Ak, self.deltaK, self.bestK
    X,                      \* self.X (set by fit_from_cfg only)
    N, k, h,                \* locals of the running fit / fit_from_cfg
    MkLoc, Is,              \* the local arrays Mk and Is
    resampled_indices, Mh,  \* the resample and labels of the trial that raised
    trials,                 \* what the trials of the running call did, per pair
    observed,               \* the same, for the call that assigned self.Mk
    budget,                 \* resampling trials the engine may still run
    result                  \* outcome of the last finished call

vars == <<pc, L_, K_, H_, resample_proportion_, Mk, Ak, deltaK, bestK, X,
          N, k, h, MkLoc, Is, resampled_indices, Mh, trials, observed,
          budget, result>>

config == <<L_, K_, H_, resample_proportion_>>
fitted == <<Mk, Ak, deltaK, bestK>>
locals == <<N, k, h, MkLoc, Is, resampled_indices, Mh, trials>>

\* ----------------------------------------------------------------- helpers
Rows(n) == 0 .. (n - 1)

\* np.zeros((n, n))
Zeros(n) == [a \in Rows(n) |-> [b \in Rows(n) |-> 0]]

\* the proportions tried, in tenths: 0.0, 0.5, 1.0 and the rejected 1.2
PropVals == {0, 5, 10, 12}

\* labels a clustering model may return
LabelVals == (0 - 1) .. MaxLabel

\* util.resample: ceil(proportion * n) row indices, drawn without
\* replacement, in any order
ResampleSize(n, p) == (p * n + 9) \div 10

Resamples(n, p) ==
    {q \in [1 .. ResampleSize(n, p) -> Rows(n)] :
        \A i, j \in DOMAIN q : i # j => q[i] # q[j]}

\* itertools.combinations(seq, 2) as index arrays: the cells <<x, y>> with
\* x before y in seq
Combinations2(seq) ==
    {<<seq[c[1]], seq[c[2]]>> :
        c \in {d \in (DOMAIN seq) \X (DOMAIN seq) : d[1] < d[2]}}

\* np.argsort(Mh): a permutation of the positions that sorts the labels;
\* the order among equal labels is the sort's choice
Argsorts(labels) ==
    {q \in Permutations(DOMAIN labels) :
        \A i, j \in DOMAIN q : i < j => labels[q[i]] <= labels[q[j]]}

\* bisect.bisect_left / bisect_right on a sorted sequence
bisect_left(sorted_, x) == Cardinality({i \in DOMAIN sorted_ : sorted_[i] < x})
bisect_right(sorted_, x) == Cardinality({i \in DOMAIN sorted_ : sorted_[i] <= x})

\* is_ = resampled_indices[id_clusts[ia:ib]] for cluster i
ClusterRows(i, labels, id_clusts, idx) ==
    LET sorted_ == [j \in DOMAIN labels |-> labels[id_clusts[j]]]
        ia == bisect_left(sorted_, i)
        ib == bisect_right(sorted_, i)
    IN  [j \in 1 .. (ib - ia) |-> idx[id_clusts[ia + j]]]

\* a pair of a cluster counted in both orientations, not only as drawn
AddClusterPairsBothWays(acc, kk, labels, id_clusts, idx) ==
    [a \in DOMAIN acc |-> [b \in DOMAIN acc |->
        acc[a][b] + Cardinality({i \in 0 .. (kk - 1) :
            \/ <<a, b>> \in Combinations2(ClusterRows(i, labels, id_clusts, idx))
            \/ <<b, a>> \in Combinations2(ClusterRows(i, labels, id_clusts, idx))})]]

\* for i in range(kk): Mk[ids_[0], ids_[1]] += 1 when ids_ is not empty
AddClusterPairs(acc, kk, labels, id_clusts, idx) ==
    [a \in DOMAIN acc |-> [b \in DOMAIN acc |->
        acc[a][b] + Cardinality({i \in 0 .. (kk - 1) :
            <<a, b>> \in Combinations2(ClusterRows(i, labels, id_clusts, idx))})]]

\* Is[ids_2[0], ids_2[1]] += 1
AddResamplePairs(is, idx) ==
    [a \in DOMAIN is |-> [b \in DOMAIN is |->
        is[a][b] + (IF <<a, b>> \in Combinations2(idx) THEN 1 ELSE 0)]]

\* ------------------------------------------------- the consensus matrix
\* A cell of a normalised matrix is a float; it is kept as the exact sum it
\* was computed as: sum = the two quotients added by the mirroring, each
\* <<n, d>> standing for n / (d + 1e-8), and eye = what np.eye added.
\* Float addition commutes, so the two quotients are kept in sorted order.
Plus(x, y) ==
    IF x[1] < y[1] \/ (x[1] = y[1] /\ x[2] <= y[2]) THEN <<x, y>> ELSE <<y, x>>

\* the co-resampling counts left as accumulated, one orientation per trial
SymmetrizeMissing(is) == is

\* Is += Is.T
Symmetrize(is) == [a \in DOMAIN is |-> [b \in DOMAIN is |-> is[a][b] + is[b][a]]]

\* Mk[i_] /= Is + 1e-8
Divide(acc, is) == [a \in DOMAIN acc |-> [b \in DOMAIN acc |-> <<acc[a][b], is[a][b]>>]]

\* the quotients left unmirrored
MirrorMissing(q) ==
    [a \in DOMAIN q |-> [b \in DOMAIN q |-> Plus(q[a][b], <<0, q[a][b][2]>>)]]

\* Mk[i_] += Mk[i_].T
Mirror(q) == [a \in DOMAIN q |-> [b \in DOMAIN q |-> Plus(q[a][b], q[b][a])]]

\* Mk[i_] += np.eye(N)
AddEye(m) ==
    [a \in DOMAIN m |-> [b \in DOMAIN m |->
        [sum |-> m[a][b], eye |-> IF a = b THEN 1 ELSE 0]]]

\* lines 81-84 (fit) and 134-137 (fit_from_cfg)
Consensus(acc, is) == AddEye(Mirror(Divide(acc, Symmetrize(is))))

\* ---------------------------------------------- the stability statistics
\* deltaK: one entry per adjacent pair of areas, a rational <<num, den>>;
\* the third zipped sequence, range(L_, K_ - 1), is the real count
DeltaLen(areas, lo, hi) ==
    LET n == Cardinality(DOMAIN areas)
        m == IF n = 0 THEN 0 ELSE n - 1
        r == IF hi - 1 - lo < 0 THEN 0 ELSE hi - 1 - lo
    IN  IF m < r THEN m ELSE r

\* the relative change taken from count 2 on, not from count 3 on
DeltaEntryFrom2(Ab, Aa, i) == IF i >= 2 THEN <<Ab - Aa, Aa>> ELSE <<Aa, 1>>

DeltaEntry(Ab, Aa, i) == IF i > 2 THEN <<Ab - Aa, Aa>> ELSE <<Aa, 1>>

Deltas(areas, lo, hi) ==
    [j \in 0 .. (DeltaLen(areas, lo, hi) - 1) |->
        DeltaEntry(areas[j + 1], areas[j], lo + j)]

\* x < y for rationals with positive denominators
RatLess(x, y) == x[1] * y[2] < y[1] * x[2]

\* np.argmax: a scan that keeps the first of the largest entries
RECURSIVE ArgmaxFrom(_, _, _)
ArgmaxFrom(d, j, best) ==
    IF j \notin DOMAIN d THEN best
    ELSE ArgmaxFrom(d, j + 1, IF RatLess(d[best], d[j]) THEN j ELSE best)

Argmax(d) == ArgmaxFrom(d, 1, 0)

\* np.argmax(self.deltaK) + self.L_ if self.deltaK.size > 0 else self.L_
BestK(d, lo) == IF Cardinality(DOMAIN d) > 0 THEN Argmax(d) + lo ELSE lo

\* the area under the CDF of one consensus matrix is a float out of
\* np.histogram; it is left open over AkVals
AkVals == 1 .. MaxAk

\* --------------------------------------------------- what the trials did
\* For each candidate index and each unordered pair of rows <<a, b>>, a < b:
\* in how many trials both rows were resampled (coSampled) and in how many
\* of those the two rows got the same label (together).
Pairs(n) == {pr \in Rows(n) \X Rows(n) : pr[1] < pr[2]}

NoTrials(cands, n) ==
    [together  |-> [i \in cands |-> [pr \in Pairs(n) |-> 0]],
     coSampled |-> [i \in cands |-> [pr \in Pairs(n) |-> 0]]]

BothDrawn(pr, idx) ==
    \E i, j \in DOMAIN idx : idx[i] = pr[1] /\ idx[j] = pr[2]

SameLabel(pr, idx, labels) ==
    \E i, j \in DOMAIN idx :
        idx[i] = pr[1] /\ idx[j] = pr[2] /\ labels[i] = labels[j]

Observe(tr, i, idx, labels) ==
    [together  |-> [tr.together EXCEPT ![i] =
                     [pr \in DOMAIN @ |->
                        @[pr] + (IF SameLabel(pr, idx, labels) THEN 1 ELSE 0)]],
     coSampled |-> [tr.coSampled EXCEPT ![i] =
                     [pr \in DOMAIN @ |->
                        @[pr] + (IF BothDrawn(pr, idx) THEN 1 ELSE 0)]]]

\* ------------------------------------------------------------ the engine
Outcome(op, err, called, ret) ==
    [op |-> op, err |-> err, called |-> called, ret |-> ret]

NoLocals ==
    /\ N' = 0 /\ k' = 0 /\ h' = 0
    /\ MkLoc' = << >> /\ Is' = << >>
    /\ resampled_indices' = << >> /\ Mh' = << >>
    /\ trials' = << >>

\* an exception leaves the call: its locals are gone, but for the trial's
\* draw, kept to tell what raised
Raised(idx, labels) ==
    /\ N' = 0 /\ k' = 0 /\ h' = 0
    /\ MkLoc' = << >> /\ Is' = << >>
    /\ resampled_indices' = idx /\ Mh' = labels
    /\ trials' = << >>

Init ==
    /\ pc = "new"
    /\ L_ = 0 /\ K_ = 0 /\ H_ = 0 /\ resample_proportion_ = 0
    /\ Mk = None /\ Ak = None /\ deltaK = None /\ bestK = None
    /\ X = None
    /\ N = 0 /\ k = 0 /\ h = 0 /\ MkLoc = << >> /\ Is = << >>
    /\ resampled_indices = << >> /\ Mh = << >>
    /\ trials = << >> /\ observed = << >>
    /\ budget = MaxTrials
    /\ result = Outcome("none", "none", FALSE, "none")

\* __init__: the assert on the proportion, then the fields
Construct ==
    /\ pc = "new"
    /\ \E L \in 2 .. MaxL, K \in 1 .. MaxK, H \in 0 .. MaxH, p \in PropVals :
        /\ IF ~(0 <= p /\ p <= 10)
           THEN /\ pc' = "rejected"
                /\ result' = Outcome("__init__", "AssertionError", FALSE, "none")
                /\ UNCHANGED config
           ELSE /\ pc' = "idle"
                /\ L_' = L /\ K_' = K /\ H_' = H /\ resample_proportion_' = p
                /\ result' = Outcome("__init__", "none", FALSE, "none")
    /\ UNCHANGED <<fitted, X, locals, observed, budget>>

\* fit, lines 52-55: N and the two arrays; np.zeros refuses a negative
\* first dimension
FitCall ==
    /\ pc = "idle"
    /\ (K_ - L_) * H_ <= budget
    /\ \E n \in (MaxN - 1) .. MaxN :
        IF K_ - L_ < 0
        THEN /\ result' = Outcome("fit", "ValueError", FALSE, "none")
             /\ UNCHANGED <<pc, locals>>
        ELSE /\ pc' = "fit"
             /\ N' = n
             /\ MkLoc' = [i \in 0 .. (K_ - L_ - 1) |-> Zeros(n)]
             /\ Is' = Zeros(n)
             /\ k' = L_ /\ h' = 0
             /\ trials' = NoTrials(0 .. (K_ - L_ - 1), n)
             /\ result' = Outcome("fit", "running", FALSE, "none")
             /\ UNCHANGED <<resampled_indices, Mh>>
    /\ UNCHANGED <<config, fitted, X, observed, budget>>

\* the pair array guarded like ids_ is, so that no resample raises
PairArrayGuarded(idx) == FALSE

\* ids_2[0] on the array of no pairs: IndexError
PairArrayEmpty(idx) == Cardinality(Combinations2(idx)) = 0

\* fit, lines 60-80: one resampling trial at candidate count k whose
\* clustering returned `labels`
Trial(labelSet) ==
    /\ pc = "fit" /\ k < K_ /\ h < H_
    /\ \E idx \in Resamples(N, resample_proportion_) :
       \E labels \in [DOMAIN idx -> labelSet] :
       \E id_clusts \in Argsorts(labels) :
        /\ IF PairArrayEmpty(idx)
           THEN /\ pc' = "idle"
                /\ result' = Outcome("fit", "IndexError", TRUE, "none")
                /\ Raised(idx, labels)
           ELSE /\ resampled_indices' = << >> /\ Mh' = << >>
                /\ MkLoc' = [MkLoc EXCEPT ![k - L_] =
                                AddClusterPairs(@, k, labels, id_clusts, idx)]
                /\ Is' = AddResamplePairs(Is, idx)
                /\ trials' = Observe(trials, k - L_, idx, labels)
                /\ h' = h + 1
                /\ UNCHANGED <<pc, result, N, k>>
    /\ budget' = budget - 1
    /\ UNCHANGED <<config, fitted, X, observed>>

\* the clustering primitive may return any labels
FitTrial == Trial(LabelVals)

\* the clustering primitive built with n_clusters=k labels its rows 0..k-1
FitTrialKLabels == Trial(0 .. (k - 1))

\* fit, lines 81-86: the H trials of count k are done
FitNormalize ==
    /\ pc = "fit" /\ k < K_ /\ h >= H_
    /\ MkLoc' = [MkLoc EXCEPT ![k - L_] = Consensus(@, Is)]
    /\ Is' = Zeros(N)
    /\ k' = k + 1 /\ h' = 0
    /\ UNCHANGED <<pc, config, fitted, X, N, resampled_indices, Mh, trials,
                   observed, budget, result>>

\* fit, lines 87-100
FitFinish ==
    /\ pc = "fit" /\ k >= K_
    /\ \E areas \in [0 .. (K_ - L_ - 1) -> AkVals] :
        /\ Mk' = [kind |-> "tensor", N |-> N, m |-> MkLoc]
        /\ Ak' = Value(areas)
        /\ deltaK' = Value(Deltas(areas, L_, K_))
        /\ bestK' = Value(BestK(Deltas(areas, L_, K_), L_))
    /\ observed' = trials
    /\ pc' = "idle"
    /\ result' = Outcome("fit", "none", K_ > L_ /\ H_ > 0, "none")
    /\ NoLocals
    /\ UNCHANGED <<config, X, budget>>

\* fit_from_cfg, lines 103-107
FitFromCfgCall ==
    /\ pc = "idle"
    /\ H_ <= budget
    /\ \E n \in (MaxN - 1) .. MaxN :
        /\ X' = Value(n)
        /\ N' = n
        /\ MkLoc' = Zeros(n)
        /\ Is' = Zeros(n)
        /\ trials' = NoTrials({0}, n)
    /\ pc' = "fit_from_cfg"
    /\ k' = 0 /\ h' = 0
    /\ result' = Outcome("fit_from_cfg", "running", FALSE, "none")
    /\ UNCHANGED <<config, fitted, resampled_indices, Mh, observed, budget>>

\* k = len(np.unique(sorted_))
Unique(labels) == Cardinality({labels[i] : i \in DOMAIN labels})

\* fit_from_cfg, lines 109-133: one trial of the configured model, which
\* labels the rows as it likes; k is the number of distinct labels
FitFromCfgTrial ==
    /\ pc = "fit_from_cfg" /\ h < H_
    /\ \E idx \in Resamples(N, resample_proportion_) :
       \E labels \in [DOMAIN idx -> LabelVals] :
       \E id_clusts \in Argsorts(labels) :
        IF PairArrayEmpty(idx)
        THEN /\ pc' = "idle"
             /\ result' = Outcome("fit_from_cfg", "IndexError", TRUE, "none")
             /\ Raised(idx, labels)
        ELSE /\ resampled_indices' = << >> /\ Mh' = << >>
             /\ MkLoc' = AddClusterPairs(MkLoc, Unique(labels), labels, id_clusts, idx)
             /\ Is' = AddResamplePairs(Is, idx)
             /\ trials' = Observe(trials, 0, idx, labels)
             /\ h' = h + 1
             /\ UNCHANGED <<pc, result, N, k>>
    /\ budget' = budget - 1
    /\ UNCHANGED <<config, fitted, X, observed>>

\* fit_from_cfg, lines 134-139: only self.Mk is assigned
FitFromCfgFinish ==
    /\ pc = "fit_from_cfg" /\ h >= H_
    /\ Mk' = [kind |-> "matrix", N |-> N, m |-> Consensus(MkLoc, Is)]
    /\ observed' = trials
    /\ pc' = "idle"
    /\ result' = Outcome("fit_from_cfg", "none", H_ > 0, "none")
    /\ NoLocals
    /\ UNCHANGED <<config, Ak, deltaK, bestK, X, budget>>

\* ---------------------------------------------------------- predictions
\* self.Mk[self.bestK - self.L_]: bestK None cannot be subtracted from; the
\* index must lie inside the first axis
SliceError ==
    IF bestK = None THEN "TypeError"
    ELSE IF Mk.kind = "tensor" /\ bestK.v - L_ \notin DOMAIN Mk.m THEN "IndexError"
    ELSE IF Mk.kind = "matrix" /\ bestK.v - L_ \notin Rows(Mk.N) THEN "IndexError"
    ELSE "none"

\* predict, lines 145-147
Predict ==
    /\ pc = "idle"
    /\ result' =
         IF Mk = None THEN Outcome("predict", "AssertionError", FALSE, "none")
         ELSE IF SliceError # "none" THEN Outcome("predict", SliceError, FALSE, "none")
         ELSE Outcome("predict", "none", TRUE, "labels")
    /\ UNCHANGED <<pc, config, fitted, X, locals, observed, budget>>

\* predict_hierarchical, lines 150-154: AgglomerativeClustering, not the
\* injected primitive, does the clustering
PredictHierarchical ==
    /\ pc = "idle"
    /\ result' =
         IF Mk = None
         THEN Outcome("predict_hierarchical", "AssertionError", FALSE, "none")
         ELSE IF SliceError # "none"
         THEN Outcome("predict_hierarchical", SliceError, FALSE, "none")
         ELSE Outcome("predict_hierarchical", "none", FALSE, "labels")
    /\ UNCHANGED <<pc, config, fitted, X, locals, observed, budget>>

\* predict_from_tuned, lines 158-170: an empty range leaves np.argmax an
\* empty list; the agglomerative clustering takes a 2-D matrix only;
\* self.X exists after fit_from_cfg only
PredictFromTuned ==
    /\ pc = "idle"
    /\ result' =
         IF Mk = None
         THEN Outcome("predict_from_tuned", "AssertionError", FALSE, "none")
         ELSE IF K_ - L_ <= 0
         THEN Outcome("predict_from_tuned", "ValueError", FALSE, "none")
         ELSE IF Mk.kind = "tensor"
         THEN Outcome("predict_from_tuned", "ValueError", FALSE, "none")
         ELSE IF X = None
         THEN Outcome("predict_from_tuned", "AttributeError", FALSE, "none")
         ELSE Outcome("predict_from_tuned", "none", FALSE, "labels")
    /\ UNCHANGED <<pc, config, fitted, X, locals, observed, budget>>

\* predict_data without its assert
PredictDataUnchecked ==
    /\ pc = "idle"
    /\ result' = Outcome("predict_data", "none", TRUE, "labels")
    /\ UNCHANGED <<pc, config, fitted, X, locals, observed, budget>>

\* predict_data, lines 178-180
PredictData ==
    /\ pc = "idle"
    /\ result' =
         IF Mk = None THEN Outcome("predict_data", "AssertionError", FALSE, "none")
         ELSE Outcome("predict_data", "none", TRUE, "labels")
    /\ UNCHANGED <<pc, config, fitted, X, locals, observed, budget>>

\* ------------------------------------------------------- specifications
Common ==
    \/ Construct
    \/ FitCall
    \/ FitNormalize
    \/ FitFinish
    \/ FitFromCfgCall
    \/ FitFromCfgTrial
    \/ FitFromCfgFinish
    \/ Predict
    \/ PredictHierarchical
    \/ PredictFromTuned
    \/ PredictData

\* any engine, any labels
Next == Common \/ FitTrial

Spec == Init /\ [][Next]_vars

\* the primitive that fit builds with n_clusters=k labels rows 0..k-1
NextKLabels == Common \/ FitTrialKLabels

SpecKLabels == Init /\ [][NextKLabels]_vars

\* ----------------------------------------------------------- properties
\* the consensus matrices self.Mk holds
Matrices ==
    IF Mk.kind = "tensor" THEN {Mk.m[i] : i \in DOMAIN Mk.m}
    ELSE IF Mk.kind = "matrix" THEN {Mk.m}
    ELSE {}

\* the counts a cell was computed from
Numerator(c) == c.sum[1][1] + c.sum[2][1]
Denominators(c) == {c.sum[1][2], c.sum[2][2]}

\* a cell equal to 1: np.eye's 1 added to quotients that are 0
IsOne(c) == c.eye = 1 /\ c.sum[1][1] = 0 /\ c.sum[2][1] = 0

PredictOps == {"predict", "predict_hierarchical", "predict_from_tuned", "predict_data"}

\* C1: after fit or fit_from_cfg every consensus matrix is symmetric and
\* has every diagonal entry equal to 1, whatever was drawn and whatever
\* labels the clustering returned.
C1_SymmetricUnitDiagonal ==
    \A m \in Matrices : \A a, b \in DOMAIN m :
        /\ m[a][b] = m[b][a]
        /\ IsOne(m[a][a])

\* a fitted matrix one of whose pairs was counted in one orientation only
C1_Witness ==
    \E m \in Matrices : \E a, b \in DOMAIN m :
        a # b /\ m[a][b].sum[1][1] # m[a][b].sum[2][1]

\* C2: after fit every entry of every consensus matrix lies in [0, 1]: off
\* the diagonal the same-cluster count of a pair, both orientations
\* together, is at most the symmetrised co-resampling count dividing it.
C2_EntriesInUnitInterval ==
    Mk.kind = "tensor" =>
        \A m \in Matrices : \A a, b \in DOMAIN m :
            IF a = b THEN IsOne(m[a][b])
            ELSE /\ m[a][b].eye = 0
                 /\ m[a][b].sum[1][1] >= 0 /\ m[a][b].sum[2][1] >= 0
                 /\ Cardinality(Denominators(m[a][b])) = 1
                 /\ \A d \in Denominators(m[a][b]) : Numerator(m[a][b]) <= d

\* a pair put in one cluster in two trials, once in each orientation
C2_Witness ==
    /\ Mk.kind = "tensor"
    /\ \E m \in Matrices : \E a, b \in DOMAIN m :
        /\ a # b
        /\ m[a][b].sum[1][1] = 1 /\ m[a][b].sum[2][1] = 1
        /\ Denominators(m[a][b]) = {2}

\* C3: after a fit that completes bestK is an integer with L <= bestK < K.
C3_BestKInRange ==
    bestK # None => (bestK.v \in Int /\ L_ <= bestK.v /\ bestK.v < K_)

\* C4: predict, predict_hierarchical, predict_from_tuned and predict_data
\* on an engine no fit or fit_from_cfg has completed on end in the
\* assertion error, call no clustering, return no labels and leave Mk, Ak,
\* deltaK and bestK unset.
C4_PredictBeforeFit ==
    (Mk = None /\ result.op \in PredictOps) =>
        /\ result.err = "AssertionError"
        /\ ~result.called
        /\ result.ret = "none"
        /\ Ak = None /\ deltaK = None /\ bestK = None

\* predict_data was called on an engine constructed and never fitted
C4_Witness ==
    /\ pc = "idle" /\ Mk = None
    /\ result.op = "predict_data" /\ result.err = "AssertionError"

\* C5: a trial of fit that draws fewer than 2 rows makes fit raise (the
\* IndexError of line 80) and leaves Mk, Ak, deltaK and bestK as they were;
\* a trial that draws at least 2 rows does not raise it.
C5_DegenerateResample ==
    [][(pc = "fit" /\ budget' # budget) =>
         IF ResampleSize(N, resample_proportion_) < 2
         THEN /\ pc' = "idle"
              /\ result'.op = "fit" /\ result'.err = "IndexError"
              /\ Len(resampled_indices') < 2
              /\ UNCHANGED fitted
         ELSE /\ pc' = "fit"
              /\ result'.err # "IndexError"]_vars

\* an engine fitted on 3 rows whose next fit, on 2 rows, drew 1 row
C5_Witness ==
    /\ pc = "idle" /\ Mk.kind = "tensor" /\ bestK # None
    /\ result.op = "fit" /\ result.err = "IndexError"
    /\ Len(resampled_indices) = 1

\* C6: an engine whose range has K <= L is refused, at construction or by
\* fit, and never holds a bestK.
C6_EmptyRangeRejected ==
    (pc = "idle" /\ K_ <= L_) =>
        /\ bestK = None
        /\ (result.op = "fit" => result.err # "none")

\* C7: whenever bestK is set, Mk is the (K-L) x N x N tensor of the fit
\* call that set bestK, Ak and deltaK; fit_from_cfg leaves no bestK of an
\* earlier fit beside its own N x N matrix.
C7_DerivedConsistent ==
    bestK # None =>
        /\ Mk.kind = "tensor"
        /\ DOMAIN Mk.m = 0 .. (K_ - L_ - 1)
        /\ Ak # None /\ DOMAIN Ak.v = DOMAIN Mk.m
        /\ deltaK # None

C9_DeltaAndBestK ==
    (bestK # None /\ L_ < K_) =>
        LET A == Ak.v
            D == deltaK.v
            best == bestK.v - L_
        IN  /\ Cardinality(DOMAIN D) = K_ - L_ - 1
            /\ DOMAIN D = 0 .. (K_ - L_ - 2)
            /\ \A i \in DOMAIN D :
                 D[i] = IF L_ + i <= 2 THEN <<A[i], 1>>
                        ELSE <<A[i + 1] - A[i], A[i]>>
            /\ IF DOMAIN D = {} THEN best = 0
               ELSE /\ best \in DOMAIN D
                    /\ \A i \in DOMAIN D : D[i][1] * D[best][2] <= D[best][1] * D[i][2]
                    /\ \A i \in DOMAIN D :
                         i < best => D[i][1] * D[best][2] < D[best][1] * D[i][2]

\* L=2, K=5: the relative change at count 3 beats the area at count 2
C9_Witness ==
    /\ bestK # None /\ L_ = 2 /\ K_ = 5
    /\ bestK.v = 3

\* C10: in fit_from_cfg every unordered pair of resampled rows that share a
\* label, whatever its value, adds 1 to the co-association accumulator in
\* each trial.
C10_EveryLabelCounted ==
    pc = "fit_from_cfg" =>
        \A pr \in Pairs(N) :
            MkLoc[pr[1]][pr[2]] + MkLoc[pr[2]][pr[1]] = trials.together[0][pr]

====
